---- MODULE Spec2Model ----
(***************************************************************************)
(* Model of the task prioritisation engine (tasks/scoring.py) and of the   *)
(* two request handlers in front of it (tasks/views.py).                   *)
(*                                                                         *)
(* Numbers: signal levels are integer tenths (0.3 -> 3), weights are       *)
(* integer hundredths (0.35 -> 35), scores are integer thousandths         *)
(* (round(x, 3) of a sum of tenths*hundredths is that sum exactly).        *)
(* Hours and importance ratings are carried in tenths (2.5 h -> 25).       *)
(* Due dates are carried as the day difference to date.today().            *)
(* Python's None, used as the id of a task that has no "id" key, is 0.     *)
(***************************************************************************)
EXTENDS Integers, Sequences, FiniteSets, TLC

\* ------------------------------------------------------------- bounds
MaxTasks == 3
MaxDeps == 2
MaxEdges == 4

NoneId == 0
\* The ids a dependency list may name; a batch of n < MaxTasks tasks uses
\* 1..n, so the others are references to tasks absent from the batch.
Ids == 1..MaxTasks
\* Everything detect_cycles may meet: None, the ids, a positional fallback id.
Nodes == 0..(MaxTasks + 1)

\* ------------------------------------------------------------- weights
\* Mutant: deadline_driven weighs urgency 0.7, so its weights sum to 1.1.
STRATEGY_WEIGHTS_Heavy ==
  [fastest_wins    |-> [urgency |-> 20, importance |-> 20, effort |-> 50, deps |-> 10],
   high_impact     |-> [urgency |-> 20, importance |-> 60, effort |-> 10, deps |-> 10],
   deadline_driven |-> [urgency |-> 70, importance |-> 20, effort |-> 10, deps |-> 10],
   smart_balance   |-> [urgency |-> 35, importance |-> 35, effort |-> 15, deps |-> 15]]

STRATEGY_WEIGHTS ==
  [fastest_wins    |-> [urgency |-> 20, importance |-> 20, effort |-> 50, deps |-> 10],
   high_impact     |-> [urgency |-> 20, importance |-> 60, effort |-> 10, deps |-> 10],
   deadline_driven |-> [urgency |-> 60, importance |-> 20, effort |-> 10, deps |-> 10],
   smart_balance   |-> [urgency |-> 35, importance |-> 35, effort |-> 15, deps |-> 15]]

StrategyNames == DOMAIN STRATEGY_WEIGHTS

\* A "strategy" value of a request body that is a JSON list or object.
UnhashableStrategy == "<list>"

\* dict.get(key) hashes the key: a list or a dict raises TypeError.
PyHashable(strategy) == strategy # UnhashableStrategy

\* STRATEGY_WEIGHTS.get(strategy, STRATEGY_WEIGHTS["smart_balance"])
SelectWeights(strategy) ==
  IF strategy \in StrategyNames THEN STRATEGY_WEIGHTS[strategy]
  ELSE STRATEGY_WEIGHTS["smart_balance"]

\* ------------------------------------------------------------- raw values
\* A raw due date: k is the Python value's kind, d the day delta it denotes.
\*   none: None/absent   empty: ""   date: datetime.date   datetime: datetime
\*   str: "YYYY-MM-DD" that strptime accepts   badstr: any other string
\*   other: any other type (a number, a list)
NoDue == [k |-> "none", d |-> 0]
\* A raw estimated_hours: v in tenths of an hour.
\*   none, other (list/dict): float() raises TypeError
\*   num: int/float   numstr: a string float() accepts   badstr: float() raises ValueError
\*   nan, inf, neginf: the float specials   hugeint: an int beyond the float range
NoHours == [k |-> "none", v |-> 0]
\* A raw importance: v in tenths.
\*   none, other: int() raises TypeError   int: an int   float: a finite float
\*   intstr: a string int() accepts   floatstr ("7.5"), badstr: int() raises ValueError
\*   nan: int() raises ValueError   inf: int() raises OverflowError
NoImp == [k |-> "none", v |-> 0]

\* _parse_due_date: [ok |-> FALSE] is None, else the date as a day delta.
_parse_due_date(value) ==
  IF value.k \in {"none", "empty"} THEN [ok |-> FALSE, d |-> 0]
  ELSE IF value.k = "date" THEN [ok |-> TRUE, d |-> value.d]
  ELSE IF value.k = "datetime" THEN [ok |-> TRUE, d |-> value.d]
  ELSE IF value.k = "str" THEN [ok |-> TRUE, d |-> value.d]
  ELSE [ok |-> FALSE, d |-> 0]

compute_urgency_score(due_date) ==
  LET p == _parse_due_date(due_date) IN
  IF ~p.ok THEN 3
  ELSE IF p.d < 0 THEN 10
  ELSE IF p.d = 0 THEN 9
  ELSE IF p.d <= 3 THEN 8
  ELSE IF p.d <= 7 THEN 6
  ELSE IF p.d <= 14 THEN 4
  ELSE 2

\* Python float(x): exc is the exception raised ("" for none), f the kind of
\* float obtained, v its value in tenths when finite.
PyFloat(x) ==
  IF x.k \in {"none", "other"} THEN [exc |-> "TypeError", f |-> "fin", v |-> 0]
  ELSE IF x.k = "badstr" THEN [exc |-> "ValueError", f |-> "fin", v |-> 0]
  ELSE IF x.k = "hugeint" THEN [exc |-> "OverflowError", f |-> "fin", v |-> 0]
  ELSE IF x.k \in {"nan", "inf", "neginf"} THEN [exc |-> "", f |-> x.k, v |-> 0]
  ELSE [exc |-> "", f |-> "fin", v |-> x.v]

\* compute_effort_score: [exc, v]; only TypeError and ValueError are caught.
compute_effort_score(estimated_hours) ==
  LET h == PyFloat(estimated_hours) IN
  IF h.exc \in {"TypeError", "ValueError"} THEN [exc |-> "", v |-> 5]
  ELSE IF h.exc # "" THEN [exc |-> h.exc, v |-> 0]
  ELSE IF h.f = "nan" THEN [exc |-> "", v |-> 2]
  ELSE IF h.f = "inf" THEN [exc |-> "", v |-> 2]
  ELSE IF h.f = "neginf" THEN [exc |-> "", v |-> 5]
  ELSE IF h.v <= 0 THEN [exc |-> "", v |-> 5]
  ELSE IF h.v <= 10 THEN [exc |-> "", v |-> 10]
  ELSE IF h.v <= 30 THEN [exc |-> "", v |-> 7]
  ELSE IF h.v <= 60 THEN [exc |-> "", v |-> 4]
  ELSE [exc |-> "", v |-> 2]

\* Truncation toward zero of a value in tenths.
Trunc(v) == IF v >= 0 THEN v \div 10 ELSE -((-v) \div 10)

\* Python int(x): exc is the exception raised ("" for none), n the integer.
PyInt(x) ==
  IF x.k \in {"none", "other"} THEN [exc |-> "TypeError", n |-> 0]
  ELSE IF x.k \in {"floatstr", "badstr", "nan"} THEN [exc |-> "ValueError", n |-> 0]
  ELSE IF x.k = "inf" THEN [exc |-> "OverflowError", n |-> 0]
  ELSE [exc |-> "", n |-> Trunc(x.v)]

\* normalize_importance: [exc, v] with v in tenths (imp / 10.0).
normalize_importance(importance) ==
  LET r == PyInt(importance)
      imp0 == IF r.exc \in {"TypeError", "ValueError"} THEN 5 ELSE r.n
      imp1 == IF imp0 < 1 THEN 1 ELSE imp0
      imp2 == IF imp1 > 10 THEN 10 ELSE imp1
  IN IF r.exc \notin {"", "TypeError", "ValueError"} THEN [exc |-> r.exc, v |-> 0]
     ELSE [exc |-> "", v |-> imp2]

\* ------------------------------------------------------------- sequences
RECURSIVE SumSeq(_)
SumSeq(s) == IF s = <<>> THEN 0 ELSE Head(s) + SumSeq(Tail(s))

CountOcc(s, x) == Cardinality({i \in DOMAIN s : s[i] = x})

Contains(s, x) == \E i \in DOMAIN s : s[i] = x

\* list.index(x): position of the first occurrence.
IndexOf(s, x) == CHOOSE i \in DOMAIN s : s[i] = x /\ \A j \in 1..(i - 1) : s[j] # x

\* list.remove(x): the list without the first occurrence of x.
Remove(s, x) ==
  LET i == IndexOf(s, x) IN SubSeq(s, 1, i - 1) \o SubSeq(s, i + 1, Len(s))

RECURSIVE SelectSeqBy(_, _)
\* [x for x in s if x in keep]
SelectSeqBy(s, keep) ==
  IF s = <<>> THEN <<>>
  ELSE IF Head(s) \in keep THEN <<Head(s)>> \o SelectSeqBy(Tail(s), keep)
  ELSE SelectSeqBy(Tail(s), keep)

\* ------------------------------------------------------------- id lookups
\* A task record: [hasId, id, deps, due, hours, imp]; id = NoneId iff ~hasId.
\* Keys of {t["id"]: t for t in ts if "id" in t}, in dict (first insertion) order.
RECURSIVE KeysOf(_)
KeysOf(ts) ==
  IF ts = <<>> THEN <<>>
  ELSE LET init == SubSeq(ts, 1, Len(ts) - 1)
           last == ts[Len(ts)]
           ks == KeysOf(init)
       IN IF last.hasId /\ ~Contains(ks, last.id) THEN Append(ks, last.id) ELSE ks

\* Index of the record the dict holds under key id: the last one with that id.
LastIdx(ts, id) ==
  CHOOSE i \in DOMAIN ts : ts[i].hasId /\ ts[i].id = id
     /\ \A j \in (i + 1)..Len(ts) : ~(ts[j].hasId /\ ts[j].id = id)

\* graph.get(node, []) of detect_cycles, graph built from tasks_by_id.
GraphOf(ts, node) ==
  IF Contains(KeysOf(ts), node) THEN ts[LastIdx(ts, node)].deps ELSE <<>>

\* ------------------------------------------------------------- dependency bonus
\* dependents_count[x] after the first loop of compute_dependency_bonus.
dependents_count(ts, x) == SumSeq([i \in DOMAIN ts |-> CountOcc(ts[i].deps, x)])

BonusOfCount(n) ==
  IF n = 0 THEN 0 ELSE IF n = 1 THEN 3 ELSE IF n <= 3 THEN 6 ELSE 10

\* compute_dependency_bonus(tasks)[tid], in tenths.
compute_dependency_bonus(ts, tid) == BonusOfCount(dependents_count(ts, tid))

\* ------------------------------------------------------------- score composer
base_score(w, urgency, importance, effort, deps) ==
  urgency * w.urgency + importance * w.importance + effort * w.effort + deps * w.deps

CyclePenalty == 200

\* Mutant: the penalized score is clamped at zero.
ScoreOf_Clamped(w, urgency, importance, effort, deps, inCycle) ==
  IF inCycle
    THEN (IF base_score(w, urgency, importance, effort, deps) < CyclePenalty THEN 0
          ELSE base_score(w, urgency, importance, effort, deps) - CyclePenalty)
    ELSE base_score(w, urgency, importance, effort, deps)

\* The score stored in the scored record (thousandths).
ScoreOf(w, urgency, importance, effort, deps, inCycle) ==
  IF inCycle THEN base_score(w, urgency, importance, effort, deps) - CyclePenalty
  ELSE base_score(w, urgency, importance, effort, deps)

\* Mutant: "Quick win" only above 0.7.
ExplanationParts_EffortStrict(urgency, importance, effort, deps, inCycle) ==
  (IF urgency >= 8 THEN <<"Due very soon">>
   ELSE IF urgency >= 6 THEN <<"Upcoming deadline">> ELSE <<>>)
  \o (IF importance >= 8 THEN <<"Very important">>
      ELSE IF importance >= 6 THEN <<"Important">> ELSE <<>>)
  \o (IF effort > 7 THEN <<"Quick win">>
      ELSE IF effort <= 3 THEN <<"Large effort task">> ELSE <<>>)
  \o (IF deps > 0 THEN <<"Unblocks other tasks">> ELSE <<>>)
  \o (IF inCycle THEN <<"Part of circular dependency (penalized)">> ELSE <<>>)

\* explanation_parts, as the list of phrases appended.
ExplanationParts(urgency, importance, effort, deps, inCycle) ==
  (IF urgency >= 8 THEN <<"Due very soon">>
   ELSE IF urgency >= 6 THEN <<"Upcoming deadline">> ELSE <<>>)
  \o (IF importance >= 8 THEN <<"Very important">>
      ELSE IF importance >= 6 THEN <<"Important">> ELSE <<>>)
  \o (IF effort >= 7 THEN <<"Quick win">>
      ELSE IF effort <= 3 THEN <<"Large effort task">> ELSE <<>>)
  \o (IF deps > 0 THEN <<"Unblocks other tasks">> ELSE <<>>)
  \o (IF inCycle THEN <<"Part of circular dependency (penalized)">> ELSE <<>>)

Fallback == <<"Balanced priority based on urgency, importance, effort, and dependencies.">>

Explanation(parts) == IF parts = <<>> THEN Fallback ELSE parts

\* ------------------------------------------------------------- ordering helpers
\* Mutant: the last element of maximal key is taken.
MaxBy_Last(s, sc) ==
  s[CHOOSE i \in DOMAIN s :
       /\ \A j \in DOMAIN s : sc[s[j]] <= sc[s[i]]
       /\ \A j \in (i + 1)..Len(s) : sc[s[j]] < sc[s[i]]]

\* max(available, key=...): the first element of maximal key; sc maps an id
\* to scored_by_id[id]["score"].
MaxBy(s, sc) ==
  s[CHOOSE i \in DOMAIN s :
       /\ \A j \in DOMAIN s : sc[s[j]] <= sc[s[i]]
       /\ \A j \in 1..(i - 1) : sc[s[j]] < sc[s[i]]]

\* Mutant: the list is left in insertion order.
SortDesc_Unsorted(s, sc) == s

\* list.sort(key=..., reverse=True): descending, equal keys keep their order.
RECURSIVE SortDesc(_, _)
SortDesc(s, sc) ==
  IF s = <<>> THEN <<>>
  ELSE LET init == SortDesc(SubSeq(s, 1, Len(s) - 1), sc)
           x == s[Len(s)]
           n == Cardinality({i \in DOMAIN init : sc[init[i]] >= sc[x]})
       IN SubSeq(init, 1, n) \o <<x>> \o SubSeq(init, n + 1, Len(init))

\* ------------------------------------------------------------- inputs
MkTask(hasId, id, deps, due, hours, imp) ==
  [hasId |-> hasId, id |-> id, deps |-> deps, due |-> due, hours |-> hours, imp |-> imp]

Rating(n) == [k |-> "int", v |-> 10 * n]

\* Two importance ratings, so that scores differ or tie between tasks.
Levels == {Rating(2), Rating(9)}

SeqsUpTo(S, n) == UNION {[1..m -> S] : m \in 0..n}

Strategies == StrategyNames \cup {"no_such_strategy"}

ListPayload(items) == [k |-> "list", items |-> items]

\* Batches with ids 1..n in input order and arbitrary dependency lists over
\* Ids (at most MaxEdges entries in all), passed to score_tasks directly.
GraphBatches ==
  UNION {
    {[i \in 1..n |-> MkTask(TRUE, i, f[i][1], NoDue, NoHours, f[i][2])] :
       f \in {g \in [1..n -> SeqsUpTo(Ids, MaxDeps) \X Levels] :
                SumSeq([i \in 1..n |-> Len(g[i][1])]) <= MaxEdges}}
    : n \in 1..MaxTasks}

GraphRequests ==
  {[kind |-> "direct", payload |-> ListPayload(b), strategy |-> "smart_balance"] :
     b \in GraphBatches}

\* Raw field values, one per branch and boundary of the normalizers.
DueAll ==
  {[k |-> "none", d |-> 0], [k |-> "empty", d |-> 0], [k |-> "badstr", d |-> 0],
   [k |-> "other", d |-> 0], [k |-> "datetime", d |-> 0], [k |-> "str", d |-> 2]}
  \cup {[k |-> "date", d |-> d] : d \in {-1, 0, 1, 3, 4, 7, 8, 14, 15}}
DueFew == {[k |-> "none", d |-> 0], [k |-> "date", d |-> 0], [k |-> "date", d |-> 15]}

HoursAll ==
  {[k |-> kk, v |-> 0] : kk \in {"none", "other", "badstr", "nan", "inf", "neginf", "hugeint"}}
  \cup {[k |-> "num", v |-> v] : v \in {-10, 0, 5, 10, 20, 30, 60, 61, 100}}
  \cup {[k |-> "numstr", v |-> 20]}
HoursFew == {[k |-> "none", v |-> 0], [k |-> "num", v |-> 5], [k |-> "num", v |-> 100]}

ImpAll ==
  {[k |-> kk, v |-> 0] : kk \in {"none", "other", "badstr", "nan", "inf"}}
  \cup {[k |-> "int", v |-> 10 * n] : n \in {-3, 0, 1, 5, 6, 8, 10, 11, 15}}
  \cup {[k |-> "float", v |-> v] : v \in {79, -5}}
  \cup {[k |-> "intstr", v |-> 70], [k |-> "floatstr", v |-> 75]}
ImpFew == {[k |-> "none", v |-> 0], [k |-> "int", v |-> 90], [k |-> "int", v |-> 10]}

FieldTriples ==
  (DueAll \X HoursFew \X ImpFew) \cup (DueFew \X HoursAll \X ImpFew)
    \cup (DueFew \X HoursFew \X ImpAll)

\* One task with every raw field value, alone or on a self-loop, any strategy.
FieldRequests ==
  {[kind |-> "direct",
    payload |-> ListPayload(<<MkTask(TRUE, 1, d, x[1], x[2], x[3])>>),
    strategy |-> st] :
     x \in FieldTriples, d \in {<<>>, <<1>>}, st \in Strategies}

\* Tasks as a client submits them: the id may be omitted.
ClientTasks ==
  {MkTask(h[1], h[2], <<>>, NoDue, NoHours, l) :
     h \in ({<<FALSE, NoneId>>} \cup {<<TRUE, i>> : i \in Ids}), l \in Levels}
  \cup {MkTask(FALSE, NoneId, <<1>>, NoDue, NoHours, Rating(9)),
        MkTask(TRUE, 2, <<1>>, NoDue, NoHours, Rating(2))}

ClientBatches == SeqsUpTo(ClientTasks, MaxTasks)

\* More tasks than a suggestion returns, none with an id or a dependency.
WideBatches ==
  [1..(MaxTasks + 1) -> {MkTask(FALSE, NoneId, <<>>, NoDue, NoHours, l) : l \in Levels}]

\* The value under "tasks" of a request body when it is not a list.
NonListKinds == {"null", "number", "string", "empty_string", "dict", "dict_emptykey"}

ClientRequests ==
  {[kind |-> kd, payload |-> ListPayload(b), strategy |-> "smart_balance"] :
     kd \in {"direct", "analyze", "suggest"}, b \in ClientBatches \cup WideBatches}
  \cup {[kind |-> kd, payload |-> [k |-> nk, items |-> <<>>], strategy |-> st] :
          kd \in {"analyze", "suggest"}, nk \in NonListKinds,
          st \in {"smart_balance", "high_impact"}}
  \cup {[kind |-> "direct", payload |-> ListPayload(b), strategy |-> "no_such_strategy"] :
          b \in SeqsUpTo(ClientTasks, MaxTasks - 1)}
  \cup {[kind |-> kd, payload |-> ListPayload(b), strategy |-> UnhashableStrategy] :
          kd \in {"direct", "analyze"}, b \in SeqsUpTo(ClientTasks, 1)}

Requests == GraphRequests \cup FieldRequests \cup ClientRequests

\* ------------------------------------------------------------- state
VARIABLES
  req,                 \* the call or HTTP request being served
  pc,                  \* where the call is
  err,                 \* the exception that ended score_tasks, "" if none
  called,              \* score_tasks has been invoked
  tasks,               \* score_tasks' argument
  weights,
  visited, stack, frames, rootIdx, in_cycle,       \* detect_cycles
  k, scored,                                        \* the scoring loop
  non_cycle_ids, cycle_ids, indegree, adj,          \* the restricted graph
  available, ordered_ids, remaining_non_cycle,      \* Kahn's loop
  result,              \* final_tasks
  response,            \* the handler's Response
  round,               \* 1 for the first call, 2 for the call that follows it
  first                \* the outcome of the first call, once a second has begun

vars == <<req, pc, err, called, tasks, weights, visited, stack, frames, rootIdx,
          in_cycle, k, scored, non_cycle_ids, cycle_ids, indegree, adj,
          available, ordered_ids, remaining_non_cycle, result, response,
          round, first>>

dfsVars == <<visited, stack, frames, rootIdx, in_cycle>>
orderVars == <<non_cycle_ids, cycle_ids, indegree, adj, available, ordered_ids,
               remaining_non_cycle>>

callVars == <<round, first>>

NoResponse == [status |-> 0, tasks |-> <<>>]

\* first before any call has ended.
NoFirst ==
  [pc |-> "", err |-> "", called |-> FALSE, request |-> <<>>, tasks |-> <<>>,
   result |-> <<>>, response |-> NoResponse]
EmptyMap == [n \in {} |-> 0]

Init ==
  /\ req \in Requests
  /\ pc = "idle"
  /\ err = ""
  /\ called = FALSE
  /\ tasks = <<>>
  /\ weights = STRATEGY_WEIGHTS["smart_balance"]
  /\ visited = [n \in Nodes |-> "white"]
  /\ stack = <<>>
  /\ frames = <<>>
  /\ rootIdx = 1
  /\ in_cycle = {}
  /\ k = 1
  /\ scored = <<>>
  /\ non_cycle_ids = <<>>
  /\ cycle_ids = <<>>
  /\ indegree = EmptyMap
  /\ adj = EmptyMap
  /\ available = <<>>
  /\ ordered_ids = <<>>
  /\ remaining_non_cycle = <<>>
  /\ result = <<>>
  /\ response = NoResponse
  /\ round = 1
  /\ first = NoFirst

\* ------------------------------------------------------------- handlers
\* isinstance(tasks_data, list)
IsList(payload) == payload.k = "list"

\* enumerate(tasks_data) raises TypeError on a value that is not iterable.
PyIterable(payload) == payload.k \notin {"null", "number"}

\* dict(t) for every element the iteration yields: a string or a dict yields
\* strings, and dict(s) raises ValueError unless s is empty.
ElementsAreDicts(payload) == payload.k \notin {"string", "dict"}

EmptyTask == MkTask(FALSE, NoneId, <<>>, NoDue, NoHours, NoImp)

\* The dicts the handler's loop builds, before setdefault.
Elements(payload) ==
  IF payload.k = "list" THEN payload.items
  ELSE IF payload.k = "dict_emptykey" THEN <<EmptyTask>>
  ELSE <<>>

\* t.setdefault('id', idx + 1) over enumerate(), idx from 0.
Normalize(items) ==
  [i \in DOMAIN items |->
     IF items[i].hasId THEN items[i]
     ELSE [items[i] EXCEPT !.hasId = TRUE, !.id = i]]

\* An exception nobody catches: a direct call ends raised, a handler answers 500.
Uncaught(e) ==
  /\ err' = e
  /\ IF req.kind = "direct"
       THEN pc' = "raised" /\ UNCHANGED response
       ELSE pc' = "done" /\ response' = [status |-> 500, tasks |-> <<>>]

\* score_tasks(tasks, strategy) called by a program that imports the engine.
CallDirect ==
  /\ pc = "idle" /\ req.kind = "direct"
  /\ tasks' = req.payload.items
  /\ called' = TRUE
  /\ pc' = "score_tasks"
  /\ UNCHANGED <<req, err, weights, dfsVars, k, scored, orderVars, result, response>>
  /\ UNCHANGED callVars

\* AnalyzeTasksView.post up to the call of score_tasks.
AnalyzePost ==
  /\ pc = "idle" /\ req.kind = "analyze"
  /\ IF ~IsList(req.payload)
       THEN /\ response' = [status |-> 400, tasks |-> <<>>]
            /\ pc' = "done"
            /\ UNCHANGED <<tasks, called, err>>
       ELSE /\ tasks' = Normalize(Elements(req.payload))
            /\ called' = TRUE
            /\ pc' = "score_tasks"
            /\ UNCHANGED <<response, err>>
  /\ UNCHANGED <<req, weights, dfsVars, k, scored, orderVars, result>>
  /\ UNCHANGED callVars

\* SuggestTasksView.post up to the call of score_tasks.
SuggestPost ==
  /\ pc = "idle" /\ req.kind = "suggest"
  /\ IF ~PyIterable(req.payload)
       THEN Uncaught("TypeError") /\ UNCHANGED <<tasks, called>>
       ELSE IF ~ElementsAreDicts(req.payload)
       THEN Uncaught("ValueError") /\ UNCHANGED <<tasks, called>>
       ELSE /\ tasks' = Normalize(Elements(req.payload))
            /\ called' = TRUE
            /\ pc' = "score_tasks"
            /\ UNCHANGED <<response, err>>
  /\ UNCHANGED <<req, weights, dfsVars, k, scored, orderVars, result>>
  /\ UNCHANGED callVars

\* ------------------------------------------------------------- score_tasks
\* Entry: weights, tasks_by_id, and detect_cycles' graph, visited and in_cycle.
\* Mutant: the colours of the previous call are kept.
Begin_KeepVisited ==
  /\ pc = "score_tasks"
  /\ IF ~PyHashable(req.strategy)
       THEN Uncaught("TypeError") /\ UNCHANGED <<weights, dfsVars>>
       ELSE /\ weights' = SelectWeights(req.strategy)
            /\ stack' = <<>>
            /\ frames' = <<>>
            /\ rootIdx' = 1
            /\ in_cycle' = {}
            /\ pc' = "detect_cycles"
            /\ UNCHANGED <<visited, err, response>>
  /\ UNCHANGED <<req, called, tasks, k, scored, orderVars, result>>
  /\ UNCHANGED callVars

\* score_tasks entered: the weights are looked up (an unhashable strategy
\* value makes the lookup raise) and detect_cycles starts with fresh locals.
Begin ==
  /\ pc = "score_tasks"
  /\ IF ~PyHashable(req.strategy)
       THEN Uncaught("TypeError") /\ UNCHANGED <<weights, dfsVars>>
       ELSE /\ weights' = SelectWeights(req.strategy)
            /\ visited' = [n \in Nodes |-> "white"]
            /\ stack' = <<>>
            /\ frames' = <<>>
            /\ rootIdx' = 1
            /\ in_cycle' = {}
            /\ pc' = "detect_cycles"
            /\ UNCHANGED <<err, response>>
  /\ UNCHANGED <<req, called, tasks, k, scored, orderVars, result>>
  /\ UNCHANGED callVars

\* Mutant: a gray node counts as not visited.
NotVisited_GrayToo(v, node) == v[node] # "black"

\* "node not in visited": the node is still white.
NotVisited(v, node) == v[node] = "white"

\* Mutant: stack[idx + 1:], the gray node itself is left out.
StackFrom_Off(stk, dep) == {stk[j] : j \in (IndexOf(stk, dep) + 1)..Len(stk)}

\* Mutant: the whole stack is marked.
StackFrom_All(stk, dep) == {stk[j] : j \in 1..Len(stk)}

\* stack[stack.index(dep):], the nodes marked at a gray hit.
StackFrom(stk, dep) == {stk[j] : j \in IndexOf(stk, dep)..Len(stk)}

\* dfs(node, stack) entered: the node turns gray and is pushed.
Enter(node, stk, frs) ==
  /\ visited' = [visited EXCEPT ![node] = "gray"]
  /\ stack' = Append(stk, node)
  /\ frames' = Append(frs, [node |-> node, i |-> 1])

\* for node in graph.keys(): if node not in visited: dfs(node, [])
DfsRoot ==
  /\ pc = "detect_cycles" /\ frames = <<>>
  /\ rootIdx <= Len(KeysOf(tasks))
  /\ LET node == KeysOf(tasks)[rootIdx] IN
       IF NotVisited(visited, node)
         THEN Enter(node, <<>>, <<>>)
         ELSE UNCHANGED <<visited, stack, frames>>
  /\ rootIdx' = rootIdx + 1
  /\ UNCHANGED <<req, pc, err, called, tasks, weights, in_cycle, k, scored,
                 orderVars, result, response>>
  /\ UNCHANGED callVars

\* One iteration of "for dep in graph.get(node, [])" in the innermost dfs call.
DfsEdge ==
  /\ pc = "detect_cycles" /\ frames # <<>>
  /\ LET top == frames[Len(frames)]
         deps == GraphOf(tasks, top.node)
         stepped == [frames EXCEPT ![Len(frames)].i = top.i + 1]
     IN /\ top.i <= Len(deps)
        /\ LET dep == deps[top.i] IN
             IF NotVisited(visited, dep)
               THEN Enter(dep, stack, stepped) /\ UNCHANGED in_cycle
             ELSE IF visited[dep] = "gray"
               THEN /\ in_cycle' = in_cycle \cup StackFrom(stack, dep)
                    /\ frames' = stepped
                    /\ UNCHANGED <<visited, stack>>
             ELSE /\ frames' = stepped
                  /\ UNCHANGED <<visited, stack, in_cycle>>
  /\ UNCHANGED <<req, pc, err, called, tasks, weights, rootIdx, k, scored,
                 orderVars, result, response>>
  /\ UNCHANGED callVars

\* The dep loop of the innermost dfs call is over: black, pop, return.
DfsReturn ==
  /\ pc = "detect_cycles" /\ frames # <<>>
  /\ LET top == frames[Len(frames)] IN
       /\ top.i > Len(GraphOf(tasks, top.node))
       /\ visited' = [visited EXCEPT ![top.node] = "black"]
       /\ stack' = SubSeq(stack, 1, Len(stack) - 1)
       /\ frames' = SubSeq(frames, 1, Len(frames) - 1)
  /\ UNCHANGED <<req, pc, err, called, tasks, weights, rootIdx, in_cycle, k, scored,
                 orderVars, result, response>>
  /\ UNCHANGED callVars

\* detect_cycles returns in_cycle; the scoring loop starts.
DetectDone ==
  /\ pc = "detect_cycles" /\ frames = <<>>
  /\ rootIdx > Len(KeysOf(tasks))
  /\ pc' = "scoring"
  /\ k' = 1
  /\ scored' = <<>>
  /\ UNCHANGED <<req, err, called, tasks, weights, dfsVars, orderVars, result, response>>
  /\ UNCHANGED callVars

\* One iteration of "for t in tasks": the scored record, or the exception a
\* normalizer lets through.
ScoreTask ==
  /\ pc = "scoring" /\ k <= Len(tasks)
  /\ LET t == tasks[k]
         tid == t.id
         urgency == compute_urgency_score(t.due)
         importance == normalize_importance(t.imp)
         effort == compute_effort_score(t.hours)
         deps == compute_dependency_bonus(tasks, tid)
         parts == ExplanationParts(urgency, importance.v, effort.v, deps, tid \in in_cycle)
     IN IF importance.exc # ""
          THEN Uncaught(importance.exc) /\ UNCHANGED <<k, scored>>
        ELSE IF effort.exc # ""
          THEN Uncaught(effort.exc) /\ UNCHANGED <<k, scored>>
        ELSE /\ scored' = Append(scored,
                    [idx |-> k, hasId |-> t.hasId, id |-> tid,
                     score |-> ScoreOf(weights, urgency, importance.v, effort.v, deps,
                                       tid \in in_cycle),
                     explanation |-> Explanation(parts)])
             /\ k' = k + 1
             /\ UNCHANGED <<pc, err, response>>
  /\ UNCHANGED <<req, called, tasks, weights, dfsVars, orderVars, result>>
  /\ UNCHANGED callVars

\* ------------------------------------------------------------- ordering
\* scored_by_id[id]["score"] for every key of scored_by_id.
ScoreMap(sc) ==
  [id \in {sc[i].id : i \in {j \in DOMAIN sc : sc[j].hasId}} |-> sc[LastIdx(sc, id)].score]

Repeat(x, n) == [i \in 1..n |-> x]

\* Mutant: only the first entry of the dependency list is counted.
InDegreeOf_FirstOnly(ts, ids, tid) ==
  IF GraphOf(ts, tid) # <<>> /\ Contains(ids, GraphOf(ts, tid)[1]) THEN 1 ELSE 0

\* indegree[tid] after the graph-building loop: one per entry of the task's
\* dependency list that is itself a non-cycle id.
InDegreeOf(ts, ids, tid) ==
  Cardinality({i \in DOMAIN GraphOf(ts, tid) : Contains(ids, GraphOf(ts, tid)[i])})

\* adj[x] after the graph-building loop: tid appended once per mention of x.
RECURSIVE AdjOf(_, _, _)
AdjOf(ts, ids, x) ==
  IF ids = <<>> THEN <<>>
  ELSE Repeat(Head(ids), CountOcc(GraphOf(ts, Head(ids)), x)) \o AdjOf(ts, Tail(ids), x)

\* Mutant: nxt is appended at every decrement, not only at zero.
RECURSIVE Relax_Always(_, _)
Relax_Always(nxts, st) ==
  IF nxts = <<>> THEN st
  ELSE Relax_Always(Tail(nxts),
         [indegree |-> [st.indegree EXCEPT ![Head(nxts)] = @ - 1],
          available |-> Append(st.available, Head(nxts))])

\* for nxt in adj.get(best_id, []): indegree[nxt] -= 1; append at zero.
RECURSIVE Relax(_, _)
Relax(nxts, st) ==
  IF nxts = <<>> THEN st
  ELSE LET nxt == Head(nxts)
           d == st.indegree[nxt] - 1
       IN Relax(Tail(nxts),
                [indegree |-> [st.indegree EXCEPT ![nxt] = d],
                 available |-> IF d = 0 THEN Append(st.available, nxt)
                               ELSE st.available])

\* scored_by_id, the partition into non-cycle and cycle ids, indegree, adj and
\* the initially available ids.
BuildGraph ==
  /\ pc = "scoring" /\ k > Len(tasks)
  /\ non_cycle_ids' = SelectSeqBy(KeysOf(scored), Nodes \ in_cycle)
  /\ cycle_ids' = SelectSeqBy(KeysOf(scored), in_cycle)
  /\ indegree' = [tid \in {non_cycle_ids'[i] : i \in DOMAIN non_cycle_ids'} |->
                    InDegreeOf(tasks, non_cycle_ids', tid)]
  /\ adj' = [tid \in DOMAIN indegree' |-> AdjOf(tasks, non_cycle_ids', tid)]
  /\ available' = SelectSeqBy(non_cycle_ids',
                              {tid \in DOMAIN indegree' : indegree'[tid] = 0})
  /\ ordered_ids' = <<>>
  /\ remaining_non_cycle' = <<>>
  /\ pc' = "ordering"
  /\ UNCHANGED <<req, err, called, tasks, weights, dfsVars, k, scored, result, response>>
  /\ UNCHANGED callVars

\* One iteration of "while available".
KahnStep ==
  /\ pc = "ordering" /\ available # <<>>
  /\ LET best_id == MaxBy(available, ScoreMap(scored))
         st == Relax(adj[best_id],
                     [indegree |-> indegree, available |-> Remove(available, best_id)])
     IN /\ ordered_ids' = Append(ordered_ids, best_id)
        /\ indegree' = st.indegree
        /\ available' = st.available
  /\ UNCHANGED <<req, pc, err, called, tasks, weights, dfsVars, k, scored,
                 non_cycle_ids, cycle_ids, adj, remaining_non_cycle, result, response>>
  /\ UNCHANGED callVars

\* The loop is over: leftovers and cyclic ids sorted by score, final_tasks built.
Finish ==
  /\ pc = "ordering" /\ available = <<>>
  /\ LET sm == ScoreMap(scored)
         rem == SortDesc(SelectSeqBy(non_cycle_ids,
                           {x \in Nodes : ~Contains(ordered_ids, x)}), sm)
         cyc == SortDesc(cycle_ids, sm)
         final_order_ids == ordered_ids \o rem \o cyc
     IN /\ remaining_non_cycle' = rem
        /\ cycle_ids' = cyc
        /\ result' = [i \in DOMAIN final_order_ids |->
                        scored[LastIdx(scored, final_order_ids[i])]]
  /\ pc' = IF req.kind = "direct" THEN "done" ELSE "respond"
  /\ UNCHANGED <<req, err, called, tasks, weights, dfsVars, k, scored,
                 non_cycle_ids, indegree, adj, available, ordered_ids, response>>
  /\ UNCHANGED callVars

TopN == 3

\* Mutant: a suggestion is cut after four records.
Respond_Four ==
  /\ pc = "respond"
  /\ response' = [status |-> 200,
                  tasks |-> IF req.kind = "suggest" /\ Len(result) > TopN + 1
                              THEN SubSeq(result, 1, TopN + 1) ELSE result]
  /\ pc' = "done"
  /\ UNCHANGED <<req, err, called, tasks, weights, dfsVars, k, scored, orderVars, result>>
  /\ UNCHANGED callVars

\* The handler's Response: everything, or scored[:3] for a suggestion.
Respond ==
  /\ pc = "respond"
  /\ response' = [status |-> 200,
                  tasks |-> IF req.kind = "suggest" /\ Len(result) > TopN
                              THEN SubSeq(result, 1, TopN) ELSE result]
  /\ pc' = "done"
  /\ UNCHANGED <<req, err, called, tasks, weights, dfsVars, k, scored, orderVars, result>>
  /\ UNCHANGED callVars

Next ==
  \/ CallDirect
  \/ AnalyzePost
  \/ SuggestPost
  \/ Begin
  \/ DfsRoot
  \/ DfsEdge
  \/ DfsReturn
  \/ DetectDone
  \/ ScoreTask
  \/ BuildGraph
  \/ KahnStep
  \/ Finish
  \/ Respond

Spec == Init /\ [][Next]_vars

\* The caller calls again once the first call has ended: the same batch, with
\* a suggestion asked again as a full analysis and an unknown strategy name
\* replaced by "smart_balance"; otherwise the identical call.
FollowUp ==
  /\ round = 1 /\ pc \in {"done", "raised"}
  /\ first' = [pc |-> pc, err |-> err, called |-> called, request |-> req,
               tasks |-> tasks, result |-> result, response |-> response]
  /\ round' = 2
  /\ req' = [req EXCEPT
               !.kind = IF @ = "suggest" THEN "analyze" ELSE @,
               !.strategy = IF @ \in StrategyNames THEN @ ELSE "smart_balance"]
  /\ pc' = "idle"
  /\ err' = ""
  /\ called' = FALSE
  /\ response' = NoResponse
  /\ UNCHANGED <<tasks, weights, dfsVars, k, scored, orderVars, result>>

NextTwice == Next \/ FollowUp

\* Two calls in a row.
SpecTwice == Init /\ [][NextTwice]_vars

\* The requests on which termination is examined: every dependency graph
\* (all tasks at one importance level), and the client requests of at most
\* one task.
TerminationRequests ==
  {r \in GraphRequests :
     \A i \in DOMAIN r.payload.items : r.payload.items[i].imp = Rating(2)}
  \cup {r \in ClientRequests : Len(r.payload.items) <= 1}

FairInit == req \in TerminationRequests /\ Init

\* One call, run to its end: the interpreter executes score_tasks and the
\* handler sequentially and never stops halfway.
FairSpec == FairInit /\ [][Next]_vars /\ WF_vars(Next)

\* ------------------------------------------------------------- properties
\* score_tasks has returned final_tasks (to its caller or to the handler).
EngineReturned == called /\ err = "" /\ pc \in {"respond", "done"}

\* detect_cycles has returned: in_cycle is the cycle set.
CyclesKnown == called /\ pc \notin {"idle", "score_tasks", "detect_cycles"}

AllHaveIds(ts) == \A i \in DOMAIN ts : ts[i].hasId
DistinctIds(ts) ==
  \A i, j \in DOMAIN ts : (i # j /\ ts[i].hasId /\ ts[j].hasId) => ts[i].id # ts[j].id

\* C1: for a batch in which every task has an id and the ids are pairwise
\* distinct, the returned list has the length of the batch and holds each
\* input task (its id) exactly once, whatever the dependency lists contain.
C1_Permutation ==
  (EngineReturned /\ AllHaveIds(tasks) /\ DistinctIds(tasks)) =>
    /\ Len(result) = Len(tasks)
    /\ \A i \in DOMAIN tasks :
         Cardinality({p \in DOMAIN result :
                        result[p].id = tasks[i].id /\ result[p].idx = i}) = 1

\* Three distinct ids, a cycle, a repeated entry in one dependency list, and
\* the list has been returned.
C1_Witness ==
  /\ EngineReturned /\ AllHaveIds(tasks) /\ DistinctIds(tasks)
  /\ Len(tasks) = MaxTasks /\ Len(result) = MaxTasks
  /\ in_cycle # {}
  /\ \E i \in DOMAIN tasks : Len(tasks[i].deps) = 2 /\ tasks[i].deps[1] = tasks[i].deps[2]

\* A batch that references an id absent from it has been ordered as well.
C1_WitnessAbsent ==
  /\ EngineReturned /\ Len(tasks) = 2 /\ Len(result) = 2
  /\ \E i \in DOMAIN tasks : Contains(tasks[i].deps, 3)

\* C2: in the returned list, if records A and B both have ids outside the
\* cycle set and A's dependency list contains B's id, B comes before A,
\* whatever their scores.
C2_DependencyFirst ==
  EngineReturned =>
    \A p, q \in DOMAIN result :
      (/\ result[p].id \notin in_cycle
       /\ result[q].id \notin in_cycle
       /\ Contains(tasks[result[p].idx].deps, result[q].id)) => q < p

\* A dependent that scores higher than its dependency was emitted after it.
C2_Witness ==
  /\ EngineReturned
  /\ \E p, q \in DOMAIN result :
       /\ result[p].id \notin in_cycle /\ result[q].id \notin in_cycle
       /\ Contains(tasks[result[p].idx].deps, result[q].id)
       /\ result[p].score > result[q].score
       /\ q < p

\* Edges of the task -> dependency graph among the keys of tasks_by_id.
Edge(ts, a, b) == Contains(GraphOf(ts, a), b)

RECURSIVE ReachIn(_, _, _)
\* The nodes reached from a by a path of 1..n edges.
ReachIn(ts, a, n) ==
  IF n = 0 THEN {}
  ELSE LET r == ReachIn(ts, a, n - 1) IN
       r \cup {b \in Nodes : Edge(ts, a, b) \/ \E c \in r : Edge(ts, c, b)}

OnCycle(ts, a) == a \in ReachIn(ts, a, Cardinality(Nodes))

\* C3: every task id that lies on a directed cycle of the task -> dependency
\* graph is in the set detect_cycles returns, and a task with no edges is not.
C3_AllCycleMembers ==
  CyclesKnown =>
    \A i \in DOMAIN tasks :
      tasks[i].hasId =>
        /\ OnCycle(tasks, tasks[i].id) => tasks[i].id \in in_cycle
        /\ (GraphOf(tasks, tasks[i].id) = <<>>
              /\ \A j \in DOMAIN tasks : ~Contains(tasks[j].deps, tasks[i].id))
            => tasks[i].id \notin in_cycle

\* C4: each scored record's score is the weighted sum of its four signals
\* under the selected strategy, minus exactly 0.2 (200 thousandths) if and
\* only if the task's id is in the cycle set; nothing is clamped.
C4_ScoreFormula ==
  CyclesKnown =>
    \A i \in DOMAIN scored :
      LET t == tasks[scored[i].idx]
          w == SelectWeights(req.strategy)
          unpenalized ==
            compute_urgency_score(t.due) * w.urgency
            + normalize_importance(t.imp).v * w.importance
            + compute_effort_score(t.hours).v * w.effort
            + compute_dependency_bonus(tasks, t.id) * w.deps
      IN /\ (t.id \in in_cycle) => scored[i].score = unpenalized - 200
         /\ (t.id \notin in_cycle) => scored[i].score = unpenalized

\* A penalized task whose score went below zero has been returned.
C4_Witness ==
  /\ EngineReturned
  /\ \E i \in DOMAIN scored : scored[i].id \in in_cycle /\ scored[i].score < 0

\* C5: in the returned list every record whose id is in the cycle set comes
\* after every record whose id is not, and the cyclic records are in
\* non-increasing score order.
C5_CyclicLast ==
  EngineReturned =>
    \A p, q \in DOMAIN result :
      (p < q /\ result[p].id \in in_cycle) =>
        /\ result[q].id \in in_cycle
        /\ result[p].score >= result[q].score

\* Two cyclic records of different scores, whose dict order was ascending,
\* placed after a record outside the cycle set.
C5_Witness ==
  /\ EngineReturned /\ Len(result) = 3
  /\ result[1].id \notin in_cycle
  /\ result[2].id \in in_cycle /\ result[3].id \in in_cycle
  /\ result[2].score > result[3].score
  /\ result[2].idx > result[3].idx

\* C6: a task passed to score_tasks without an id is scored and appears in
\* the returned list.
C6_NoIdNotDropped ==
  EngineReturned =>
    \A i \in DOMAIN tasks :
      ~tasks[i].hasId =>
        /\ \E j \in DOMAIN scored : scored[j].idx = i
        /\ \E p \in DOMAIN result : result[p].idx = i

\* The ids a request supplies explicitly are pairwise distinct.
ExplicitIdsDistinct == DistinctIds(req.payload.items)

\* C7: when the ids supplied explicitly in a full-analysis request are
\* pairwise distinct, the ids handed to the engine after the positional
\* fallback are pairwise distinct and the response holds every submitted task
\* exactly once.
C7_FallbackIdsDistinct ==
  (req.kind = "analyze" /\ IsList(req.payload) /\ ExplicitIdsDistinct
     /\ pc = "done" /\ err = "") =>
    /\ DistinctIds(tasks)
    /\ Len(response.tasks) = Len(req.payload.items)
    /\ \A i \in DOMAIN req.payload.items :
         Cardinality({p \in DOMAIN response.tasks : response.tasks[p].idx = i}) = 1

\* C8: for both request kinds a tasks payload that is not a list is answered
\* with a client error (400) and score_tasks is never invoked on it.
C8_NonListRejected ==
  (req.kind \in {"analyze", "suggest"} /\ ~IsList(req.payload)) =>
    /\ ~called
    /\ pc = "done" => response.status = 400

\* The number of other tasks of the batch whose dependency list names id x.
OtherDependents(ts, i) ==
  Cardinality({j \in DOMAIN ts : j # i /\ Contains(ts[j].deps, ts[i].id)})

\* C9: the dependency bonus of a task is 0.0, 0.3, 0.6 or 1.0 according to
\* whether 0, 1, 2..3 or at least 4 other tasks of the batch list it as a
\* dependency; its own list and repeated mentions in one list do not count.
C9_BonusCountsOtherTasks ==
  called =>
    \A i \in DOMAIN tasks :
      tasks[i].hasId =>
        compute_dependency_bonus(tasks, tasks[i].id) =
          (LET n == OtherDependents(tasks, i) IN
           IF n = 0 THEN 0 ELSE IF n = 1 THEN 3 ELSE IF n <= 3 THEN 6 ELSE 10)

\* C10: score_tasks never fails on malformed per-task data: no call ends in
\* an exception.
C10_NeverFails == called => err = ""

\* The score of a scored record before the cycle penalty (thousandths).
Unpenalized(r) == r.score + (IF r.id \in in_cycle THEN CyclePenalty ELSE 0)

\* C13: for each of the four named strategies the weights for urgency,
\* importance, effort and deps are non-negative and sum to 1.0 (100
\* hundredths), and every scored task's unpenalized score lies in [0, 1]
\* (0..1000 thousandths).
C13_WeightsNormalised ==
  /\ \A s \in StrategyNames :
       LET w == STRATEGY_WEIGHTS[s]
       IN /\ w.urgency >= 0 /\ w.importance >= 0 /\ w.effort >= 0 /\ w.deps >= 0
          /\ w.urgency + w.importance + w.effort + w.deps = 100
  /\ CyclesKnown =>
       \A i \in DOMAIN scored :
         Unpenalized(scored[i]) >= 0 /\ Unpenalized(scored[i]) <= 1000

\* Under deadline_driven a penalized task whose unpenalized score is above
\* 0.9 has been returned.
C13_Witness ==
  /\ EngineReturned
  /\ req.strategy = "deadline_driven"
  /\ \E i \in DOMAIN scored :
       scored[i].id \in in_cycle /\ Unpenalized(scored[i]) > 900

\* The eight phrases in the order the code tests for them.
Phrases ==
  <<"Due very soon", "Upcoming deadline", "Very important", "Important",
    "Quick win", "Large effort task", "Unblocks other tasks",
    "Part of circular dependency (penalized)">>

\* C19: the explanation of a task is the fallback sentence iff
\* urgency < 0.6, importance < 0.6, 0.3 < effort < 0.7, dependency bonus = 0
\* and the id is not in the cycle set; otherwise it is the fired phrases in
\* the fixed order urgency, importance, effort, dependency bonus, cycle; and
\* it holds the circular-dependency phrase exactly when 0.2 was taken off
\* the score.
C19_Explanation ==
  CyclesKnown =>
    \A i \in DOMAIN scored :
      LET t == tasks[scored[i].idx]
          w == SelectWeights(req.strategy)
          u == compute_urgency_score(t.due)
          m == normalize_importance(t.imp).v
          e == compute_effort_score(t.hours).v
          b == compute_dependency_bonus(tasks, t.id)
          none == u < 6 /\ m < 6 /\ 3 < e /\ e < 7 /\ b = 0 /\ t.id \notin in_cycle
          Fires(p) ==
            \/ p = Phrases[1] /\ u >= 8
            \/ p = Phrases[2] /\ u >= 6 /\ u < 8
            \/ p = Phrases[3] /\ m >= 8
            \/ p = Phrases[4] /\ m >= 6 /\ m < 8
            \/ p = Phrases[5] /\ e >= 7
            \/ p = Phrases[6] /\ e <= 3
            \/ p = Phrases[7] /\ b > 0
            \/ p = Phrases[8] /\ t.id \in in_cycle
          penalized ==
            scored[i].score =
              u * w.urgency + m * w.importance + e * w.effort + b * w.deps - 200
      IN /\ (scored[i].explanation = Fallback) <=> none
         /\ ~none => scored[i].explanation = SelectSeq(Phrases, Fires)
         /\ Contains(scored[i].explanation, Phrases[8]) <=> penalized

\* Returned in one batch: a record with the fallback sentence and a penalized
\* record with three phrases, the circular-dependency one last.
C19_Witness ==
  /\ EngineReturned
  /\ \E i \in DOMAIN scored : scored[i].explanation = Fallback
  /\ \E i \in DOMAIN scored :
       /\ Len(scored[i].explanation) = 3
       /\ scored[i].explanation[3] = Phrases[8]
       /\ scored[i].score = Unpenalized(scored[i]) - CyclePenalty

\* The call has returned or raised.
CallEnded == pc \in {"done", "raised"}

\* The ids of the batch: the keys of tasks_by_id.
HasKey(ts, x) == \E i \in DOMAIN ts : ts[i].hasId /\ ts[i].id = x

\* C16: for a batch with pairwise distinct ids the topological phase emits
\* every task whose id is not in the cycle set, so remaining_non_cycle is
\* empty, also when detect_cycles has left a node of a cycle unmarked.
C16_NoLeftover ==
  (EngineReturned /\ DistinctIds(tasks)) =>
    /\ remaining_non_cycle = <<>>
    /\ \A i \in DOMAIN tasks :
         (tasks[i].hasId /\ tasks[i].id \notin in_cycle)
           => Contains(ordered_ids, tasks[i].id)

\* A task on a cycle was left out of the cycle set, and the list has been
\* returned with that task emitted by the topological phase.
C16_Witness ==
  /\ EngineReturned /\ AllHaveIds(tasks) /\ DistinctIds(tasks)
  /\ \E i \in DOMAIN tasks :
       /\ OnCycle(tasks, tasks[i].id)
       /\ tasks[i].id \notin in_cycle
       /\ Contains(ordered_ids, tasks[i].id)

\* C17: every id in the set detect_cycles has built (the set only grows and
\* is read here once the call has ended) is an id of the batch that lies on a directed cycle of the task -> dependency graph; a task that is
\* not on a cycle (one that only depends on a cyclic task, one that names an
\* absent id) is scored without the penalty: a score that differs from the
\* weighted sum belongs to a task on a cycle.
C17_OnlyCycleMembers ==
  /\ (called /\ CallEnded) =>
       \A x \in in_cycle : HasKey(tasks, x) /\ OnCycle(tasks, x)
  /\ EngineReturned =>
       \A i \in DOMAIN scored :
         LET t == tasks[scored[i].idx]
             w == SelectWeights(req.strategy)
             unpenalized ==
               compute_urgency_score(t.due) * w.urgency
               + normalize_importance(t.imp).v * w.importance
               + compute_effort_score(t.hours).v * w.effort
               + compute_dependency_bonus(tasks, t.id) * w.deps
         IN scored[i].score # unpenalized => OnCycle(tasks, t.id)

\* Returned: a batch with a cyclic task, and a task outside the cycle set
\* that depends on a cyclic task and names an id absent from the batch.
C17_Witness ==
  /\ EngineReturned /\ AllHaveIds(tasks) /\ DistinctIds(tasks)
  /\ \E i \in DOMAIN tasks :
       /\ tasks[i].id \notin in_cycle
       /\ \E d \in DOMAIN tasks[i].deps : tasks[i].deps[d] \in in_cycle
       /\ \E d \in DOMAIN tasks[i].deps :
            /\ ~HasKey(tasks, tasks[i].deps[d])
            /\ tasks[i].deps[d] \notin in_cycle
       /\ \E p \in DOMAIN result : result[p].idx = i

\* The position of the first task of the batch that carries id x.
FirstIdx(ts, x) == CHOOSE i \in DOMAIN ts :
  /\ ts[i].hasId /\ ts[i].id = x
  /\ \A j \in 1..(i - 1) : ~(ts[j].hasId /\ ts[j].id = x)

\* Between two iterations the available list holds exactly the non-cycle ids
\* not yet emitted whose non-cycle dependencies have all been emitted.
AvailableIsReady ==
  pc = "ordering" =>
    {available[j] : j \in DOMAIN available} =
      {x \in {non_cycle_ids[j] : j \in DOMAIN non_cycle_ids} :
         /\ ~Contains(ordered_ids, x)
         /\ \A d \in DOMAIN GraphOf(tasks, x) :
              Contains(non_cycle_ids, GraphOf(tasks, x)[d])
                => Contains(ordered_ids, GraphOf(tasks, x)[d])}

\* One step of the topological phase: the list starts in input order; the id
\* emitted is in the available list, no available id scores higher, none
\* before it in the list scores as high, and the ids that become available
\* are put behind those already waiting.
OrderingStep ==
  /\ (pc = "scoring" /\ pc' = "ordering") =>
       \A a, b \in DOMAIN available' :
         a < b => FirstIdx(tasks, available'[a]) < FirstIdx(tasks, available'[b])
  /\ (pc = "ordering" /\ ordered_ids' # ordered_ids) =>
       LET e == ordered_ids'[Len(ordered_ids')]
           sm == ScoreMap(scored)
       IN /\ ordered_ids' = Append(ordered_ids, e)
          /\ Contains(available, e)
          /\ \A j \in DOMAIN available : sm[available[j]] <= sm[e]
          /\ \A j \in 1..(IndexOf(available, e) - 1) : sm[available[j]] < sm[e]
          /\ Len(available') >= Len(available) - 1
          /\ SubSeq(available', 1, Len(available) - 1) = Remove(available, e)

\* C15: at every step of the topological phase the task emitted scores at
\* least as high as every other available task (in-degree zero in the
\* restricted graph, not yet emitted); among equal maximal scores the one
\* that entered the available list earliest is emitted, the initially
\* available tasks being in input order.
C15_HighestAvailableFirst == []AvailableIsReady /\ [][OrderingStep]_vars

\* After a first emission two ids tie for the highest score among the
\* available ones, and the later of the two entered the list during the loop.
C15_Witness ==
  /\ pc = "ordering" /\ ordered_ids # <<>>
  /\ \E a, b \in DOMAIN available :
       /\ a < b
       /\ ScoreMap(scored)[available[a]] = ScoreMap(scored)[available[b]]
       /\ \A j \in DOMAIN available :
            ScoreMap(scored)[available[j]] <= ScoreMap(scored)[available[a]]
       /\ InDegreeOf(tasks, non_cycle_ids, available[b]) > 0

\* The traversal recurses only into a node that has no colour yet, and a
\* colour never goes back: white, then gray, then black.
DfsEntersOnce ==
  pc = "detect_cycles" =>
    /\ Len(stack') > Len(stack) =>
         LET node == stack'[Len(stack')]
         IN /\ Len(stack') = Len(stack) + 1
            /\ visited[node] = "white"
            /\ visited'[node] = "gray"
    /\ \A n \in Nodes :
         /\ visited[n] = "gray" => visited'[n] \in {"gray", "black"}
         /\ visited[n] = "black" => visited'[n] = "black"

\* An iteration of the ordering loop moves one id from the available list to
\* ordered_ids, and no emitted id is in the available list afterwards.
EmittedNeverReAdded ==
  (pc = "ordering" /\ ordered_ids' # ordered_ids) =>
    /\ Len(ordered_ids') = Len(ordered_ids) + 1
    /\ Contains(available, ordered_ids'[Len(ordered_ids')])
    /\ \A j \in DOMAIN ordered_ids' : ~Contains(available', ordered_ids'[j])

\* C18: detect_cycles and the ordering loop terminate on every batch, with
\* cycles, self-loops and references to absent ids: the traversal enters a
\* node at most once (a gray or black node is never entered again) and each
\* iteration of the ordering loop removes from the available list one task
\* that is never added again.
C18_Terminates ==
  /\ (pc = "detect_cycles") ~> (pc # "detect_cycles")
  /\ (pc = "ordering") ~> CallEnded
  /\ [][DfsEntersOnce]_vars
  /\ [][EmittedNeverReAdded]_vars

\* The call has returned for a batch with a two-task cycle, a self-loop and
\* a reference to an id absent from the batch.
C18_Witness ==
  /\ EngineReturned /\ pc = "done" /\ AllHaveIds(tasks) /\ DistinctIds(tasks)
  /\ \E i \in DOMAIN tasks : Contains(tasks[i].deps, tasks[i].id)
  /\ \E i, j \in DOMAIN tasks :
       i # j /\ Contains(tasks[i].deps, tasks[j].id) /\ Contains(tasks[j].deps, tasks[i].id)
  /\ \E i \in DOMAIN tasks :
       \E d \in DOMAIN tasks[i].deps : ~HasKey(tasks, tasks[i].deps[d])
  /\ Len(result) = Len(tasks)

\* The second call has ended.
SecondEnded == round = 2 /\ CallEnded

Min(a, b) == IF a <= b THEN a ELSE b

\* C11: for the same tasks and strategy, the list a suggestion request
\* returns is exactly the first min(3, n) records of the list the
\* full-analysis request returns, in the same order with the same content.
C11_SuggestIsPrefix ==
  (SecondEnded /\ first.request.kind = "suggest" /\ req.kind = "analyze"
     /\ response.status = 200) =>
    /\ first.response.status = 200
    /\ first.response.tasks =
         SubSeq(response.tasks, 1, Min(TopN, Len(response.tasks)))

\* A suggestion over more than three tasks was answered with three records,
\* and the analysis of the same tasks with all of them.
C11_Witness ==
  /\ SecondEnded /\ first.request.kind = "suggest" /\ req.kind = "analyze"
  /\ response.status = 200
  /\ Len(response.tasks) > TopN
  /\ Len(first.response.tasks) = TopN

\* For an unknown strategy name a call that returns gives what the call with
\* "smart_balance" gives, and one that raises raises the same exception.
FallbackEqualsDefault ==
  (SecondEnded /\ first.request.strategy \notin StrategyNames
     /\ req.strategy = "smart_balance" /\ PyHashable(first.request.strategy)) =>
    /\ first.err = err
    /\ first.result = result
    /\ first.response = response

\* C12: for a strategy name that is none of the four, score_tasks raises no
\* error and returns exactly the result (scores, explanations, order) it
\* returns for smart_balance on the same batch.
C12_UnknownStrategyFallsBack ==
  (SecondEnded /\ first.request.strategy \notin StrategyNames
     /\ req.strategy = "smart_balance" /\ PyHashable(first.request.strategy)) =>
    /\ first.err = ""
    /\ first.called /\ first.pc = "done"
    /\ first.result = result

\* C14: score_tasks keeps no state between calls and leaves its input as it
\* was: the task records and their dependency lists still are what the
\* caller passed, and a second call with the identical batch and strategy
\* ends as the first did, with identical scores, explanations and ordering.
C14_NoStateBetweenCalls ==
  /\ (called /\ req.kind = "direct") => tasks = req.payload.items
  /\ (SecondEnded /\ req = first.request) =>
       /\ pc = first.pc
       /\ err = first.err
       /\ tasks = first.tasks
       /\ result = first.result
       /\ response = first.response

\* The same batch with a cycle was scored twice and returned twice, with a
\* penalized record in the list.
C14_Witness ==
  /\ SecondEnded /\ req = first.request /\ req.kind = "direct"
  /\ EngineReturned /\ first.err = ""
  /\ Len(result) > 1
  /\ in_cycle # {}
  /\ \E i \in DOMAIN result : result[i].id \in in_cycle

====
